---------------------------- MODULE Spec2Model ----------------------------
(***************************************************************************)
(* A model of src/main.py: a FastAPI backend with three POST handlers      *)
(* (contact, checkout, analytics) that write to an optional document       *)
(* store, one diagnostics GET (/test) and two greeting GETs.               *)
(*                                                                         *)
(* Text.  A string is a sequence of pieces.  A literal of the source is    *)
(* one piece, generated text (decimal digits, an error message, a course   *)
(* id) is one piece per character.  Fields whose content is only ever      *)
(* measured (name, message, event) are kept as their character count.      *)
(* The emoji that prefix the diagnostics labels are left out of the        *)
(* labels.                                                                 *)
(*                                                                         *)
(* Handlers are plain `def` functions, which the framework runs on worker  *)
(* threads: a POST handler is two steps (build the record, then persist    *)
(* and respond), and the steps of different requests interleave.           *)
(***************************************************************************)
EXTENDS Integers, Sequences, FiniteSets

VARIABLES
    adapter,    \* what the import of lines 39-42 left in db / create_document
    clock,      \* the wall clock, in ticks of 1/TicksPerSecond second
    requests,   \* every request received so far, with its handler's state
    calls,      \* every call of create_document made so far (a spy)
    store,      \* the documents the store holds
    nextId      \* the store's generator of identifiers

vars == <<adapter, clock, requests, calls, store, nextId>>

----------------------------------------------------------------------------
(* Bounds of the model *)

MaxReq == 2             \* requests received in one behaviour
MaxTick == 2            \* ticks the clock advances after the first instant
TicksPerSecond == 2     \* resolution of the modelled clock
StartSecond == 99999999  \* Unix time at which the behaviour starts
ShortErr == 3           \* length of a short error message
ManyCollections == 11   \* size of the longest collection listing

(* Constants of the program *)

NameMin == 2
NameMax == 120
MessageMin == 4
MessageMax == 4000
CourseIdMin == 1
EventMin == 2
EventMax == 64
ErrorChars == 50
CollectionsShown == 10

----------------------------------------------------------------------------
(* Text helpers *)

Min(a, b) == IF a < b THEN a ELSE b

DigitChar(d) ==
    CASE d = 0 -> "0" [] d = 1 -> "1" [] d = 2 -> "2" [] d = 3 -> "3"
      [] d = 4 -> "4" [] d = 5 -> "5" [] d = 6 -> "6" [] d = 7 -> "7"
      [] d = 8 -> "8" [] d = 9 -> "9"

\* str(n) of a non-negative int, as the f-string of line 116 formats it.
RECURSIVE Digits(_)
Digits(n) ==
    IF n < 10 THEN <<DigitChar(n)>>
    ELSE Digits(n \div 10) \o <<DigitChar(n % 10)>>

\* A text of n characters (used for error messages).
MkText(n) == [i \in 1..n |-> DigitChar(i % 10)]

\* A variant that forgets the slice.
TruncateFull(s, k) == s

\* s[:k]
Truncate(s, k) == SubSeq(s, 1, Min(Len(s), k))

\* Variants: the clock at its full resolution, and rounded up.
TimestampTicks(t) == t
TimestampRounded(t) == (t + TicksPerSecond - 1) \div TicksPerSecond

\* int(x) of the float timestamp t / TicksPerSecond, t >= 0.
TimestampInt(t) == t \div TicksPerSecond

----------------------------------------------------------------------------
(* Inputs *)

GoodEmail == <<"j", "o", "@", "x", ".", "c", "o", "m">>
BadEmail == <<"b", "a", "d">>
NoDotEmail == <<"j", "o", "@", "x">>
NoLocalEmail == <<"@", "x", ".", "c">>

ContactBody(n, e, m) == [name |-> n, email |-> e, message |-> m]

\* Bodies at and around every limit of ContactPayload.
ContactBodies ==
    { ContactBody(NameMin, GoodEmail, MessageMin),
      ContactBody(NameMax, GoodEmail, MessageMax),
      ContactBody(NameMin - 1, GoodEmail, MessageMin),
      ContactBody(NameMax + 1, GoodEmail, MessageMax),
      ContactBody(NameMin, BadEmail, MessageMin),
      ContactBody(NameMin, NoDotEmail, MessageMin),
      ContactBody(NameMin, NoLocalEmail, MessageMin),
      ContactBody(NameMin, GoodEmail, MessageMin - 1),
      ContactBody(NameMax, GoodEmail, MessageMax + 1),
      ContactBody(NameMin - 1, BadEmail, MessageMin - 2) }

\* One body that passes and one that fails in every field.
CoreContactBodies ==
    { ContactBody(NameMin, GoodEmail, MessageMin),
      ContactBody(NameMin - 1, BadEmail, MessageMin - 2) }

CourseIds == { <<>>, <<"c", "1">>, <<"c", "2">> }
\* plan is optional: <<>> when the request gives none.
CheckoutBodies ==
    { [courseId |-> c, plan |-> <<>>] : c \in CourseIds }
    \cup { [courseId |-> <<"c", "1">>, plan |-> <<"pro">>] }
CoreCheckoutBodies ==
    { [courseId |-> <<"c", "1">>, plan |-> <<>>],
      [courseId |-> <<>>, plan |-> <<>>] }

\* properties and user are optional maps: "None" when the request gives none.
AnalyticsBodies ==
    { [event |-> e, properties |-> "None", user |-> "None"] :
          e \in {EventMin - 1, EventMin, EventMax + 1} }
    \cup { [event |-> EventMax, properties |-> "map", user |-> "map"] }
CoreAnalyticsBodies ==
    { [event |-> e, properties |-> "None", user |-> "None"] :
          e \in {EventMin - 1, EventMin} }

ErrTexts == { MkText(ShortErr), MkText(ErrorChars), MkText(ErrorChars + 1) }

\* The messages of the exceptions create_document raises.
WriteErrTexts == { MkText(ShortErr), MkText(ErrorChars + 1) }

\* What getting db.name does (line 72).
NameProbes ==
    { [kind |-> "value", name |-> <<"appdb">>, err |-> <<>>],
      [kind |-> "missing", name |-> <<>>, err |-> <<>>] }
    \cup { [kind |-> "raise", name |-> <<>>, err |-> e] : e \in ErrTexts }

\* What db.list_collection_names() does (line 75).
ListProbes ==
    { [kind |-> "ok", names |-> [i \in 1..n |-> i], err |-> <<>>] :
          n \in {CollectionsShown, ManyCollections} }
    \cup { [kind |-> "raise", names |-> <<>>, err |-> e] : e \in ErrTexts }

NoProbe == [kind |-> "none", name |-> <<>>, err |-> <<>>]
NoList == [kind |-> "none", names |-> <<>>, err |-> <<>>]

----------------------------------------------------------------------------
(* Validation: the pydantic schemas of lines 21-35 *)

Positions(s, c) == { i \in 1..Len(s) : s[i] = c }

\* EmailStr: one "@", something before it, and after it a domain with a
\* period that neither starts nor ends it.
EmailWellFormed(e) ==
    /\ Cardinality(Positions(e, "@")) = 1
    /\ LET at == CHOOSE i \in Positions(e, "@") : TRUE
           domain == SubSeq(e, at + 1, Len(e))
       IN  /\ at > 1
           /\ Len(domain) >= 3
           /\ Positions(domain, ".") # {}
           /\ domain[1] # "."
           /\ domain[Len(domain)] # "."

\* A variant whose lower limit is off by one.
LengthWithinOffByOne(n, lo, hi) == lo - 1 <= n /\ n <= hi

\* Field(min_length=lo, max_length=hi)
LengthWithin(n, lo, hi) == lo <= n /\ n <= hi

Failing(field, ok) == IF ok THEN {} ELSE {field}

\* The fields of a ContactPayload that fail validation.
ContactErrors(b) ==
    Failing("name", LengthWithin(b.name, NameMin, NameMax))
    \cup Failing("email", EmailWellFormed(b.email))
    \cup Failing("message", LengthWithin(b.message, MessageMin, MessageMax))

\* The fields of a CheckoutPayload that fail validation.
CheckoutErrors(b) == Failing("courseId", Len(b.courseId) >= CourseIdMin)

\* The fields of an AnalyticsEvent that fail validation.
AnalyticsErrors(b) ==
    Failing("event", LengthWithin(b.event, EventMin, EventMax))

\* FastAPI's answer to a body that fails its schema.
Unprocessable(fields) == [status |-> 422, body |-> [errors |-> fields]]

----------------------------------------------------------------------------
(* The store adapter: database.create_document, which is not in src/ *)

OkOutcome(id) == [kind |-> "ok", id |-> id, err |-> <<>>]
RaiseOutcome(e) == [kind |-> "raise", id |-> 0, err |-> e]

\* What a call of create_document can do now.  Absent, the name is None
\* and calling it is a TypeError; uninitialized, the adapter raises;
\* ready, the write succeeds with a fresh identifier or raises.
CreateDocumentOutcomes ==
    CASE adapter = "absent" -> { RaiseOutcome(MkText(ShortErr)) }
      [] adapter = "uninitialized" ->
            { RaiseOutcome(e) : e \in WriteErrTexts }
      [] adapter = "ready" ->
            { OkOutcome(nextId) } \cup { RaiseOutcome(e) : e \in WriteErrTexts }

\* The store after create_document(coll, doc) ended with outcome o.
StoreAfter(coll, doc, o) ==
    IF o.kind = "ok"
    THEN Append(store, [coll |-> coll, doc |-> doc, id |-> o.id])
    ELSE store

NextIdAfter(o) == IF o.kind = "ok" THEN nextId + 1 ELSE nextId

\* A variant that calls create_document without the test.
PersistAlways == TRUE

\* `if create_document:` (lines 100, 126, 142)
ShouldPersist == adapter # "absent"

----------------------------------------------------------------------------
(* Requests *)

NoRec == [_type |-> "none"]
NoResp == [status |-> 0, body |-> [pending |-> TRUE]]

\* A request whose handler has answered, or that was answered before any
\* handler ran.
Answered(ep, b, resp) ==
    [ep |-> ep, body |-> b, pc |-> "done", ts |-> clock, rec |-> NoRec,
     resp |-> resp]

\* A request whose handler has built its record and not yet persisted it.
Built(ep, b, rec) ==
    [ep |-> ep, body |-> b, pc |-> "built", ts |-> clock, rec |-> rec,
     resp |-> NoResp]

Respond(i, resp) ==
    requests' = [requests EXCEPT ![i].pc = "done", ![i].resp = resp]

Pending(ep) == { i \in 1..Len(requests) :
                    requests[i].ep = ep /\ requests[i].pc = "built" }

\* create_document(coll, requests[i].rec) ending with outcome o.
CreateDocument(i, coll, o) ==
    /\ calls' = Append(calls, [req |-> i, coll |-> coll,
                               doc |-> requests[i].rec, outcome |-> o])
    /\ store' = StoreAfter(coll, requests[i].rec, o)
    /\ nextId' = NextIdAfter(o)

----------------------------------------------------------------------------
(* GET / and GET /api/hello *)

ReadRoot ==
    /\ Len(requests) < MaxReq
    /\ requests' = Append(requests,
          Answered("root", [none |-> TRUE],
              [status |-> 200,
               body |-> [message |-> "Hello from FastAPI Backend!"]]))
    /\ UNCHANGED <<adapter, clock, calls, store, nextId>>

Hello ==
    /\ Len(requests) < MaxReq
    /\ requests' = Append(requests,
          Answered("hello", [none |-> TRUE],
              [status |-> 200,
               body |-> [message |-> "Hello from the backend API!"]]))
    /\ UNCHANGED <<adapter, clock, calls, store, nextId>>

----------------------------------------------------------------------------
(* POST /api/contact *)

ContactDoc(b, t) ==
    [name |-> b.name, email |-> b.email, message |-> b.message,
     _type |-> "contact", received_at |-> t]

\* Variants: one that swallows a failed write as the other handlers do,
\* one that returns an identifier that is not the call's.
ContactSwallowed(o) ==
    IF o.kind = "ok"
    THEN [status |-> 200, body |-> [ok |-> TRUE, id |-> o.id]]
    ELSE [status |-> 200, body |-> [ok |-> TRUE]]

ContactFixedId(o) ==
    IF o.kind = "ok"
    THEN [status |-> 200, body |-> [ok |-> TRUE, id |-> 1]]
    ELSE [status |-> 500,
          body |-> [detail |-> <<"Failed to save contact: ">> \o o.err]]

\* Lines 101-106: the answer after create_document ended with outcome o.
ContactResponse(o) ==
    IF o.kind = "ok"
    THEN [status |-> 200, body |-> [ok |-> TRUE, id |-> o.id]]
    ELSE [status |-> 500,
          body |-> [detail |-> <<"Failed to save contact: ">> \o o.err]]

\* Validation and lines 95-99.
SubmitContact(b) ==
    /\ Len(requests) < MaxReq
    /\ requests' = Append(requests,
          IF ContactErrors(b) # {}
          THEN Answered("contact", b, Unprocessable(ContactErrors(b)))
          ELSE Built("contact", b, ContactDoc(b, clock)))
    /\ UNCHANGED <<adapter, clock, calls, store, nextId>>

\* Lines 100-107.
SubmitContactPersist(i) ==
    /\ i \in Pending("contact")
    /\ IF ShouldPersist
       THEN \E o \in CreateDocumentOutcomes :
               /\ CreateDocument(i, "contact", o)
               /\ Respond(i, ContactResponse(o))
       ELSE /\ Respond(i, [status |-> 200, body |-> [ok |-> TRUE]])
            /\ UNCHANGED <<calls, store, nextId>>
    /\ UNCHANGED <<adapter, clock>>

----------------------------------------------------------------------------
(* POST /api/checkout *)

\* Line 116.
SessionId(t) == <<"sess_">> \o Digits(TimestampInt(t))

\* Line 117.
SessionUrl(sid, courseId) ==
    <<"/checkout/success?sid=">> \o sid \o <<"&course=">> \o courseId

\* plan: Optional[str] = Field(default="standard")
PlanOf(b) == IF b.plan = <<>> THEN "standard" ELSE b.plan[1]

\* Lines 118-125.
CheckoutRecord(b, t) ==
    [_type |-> "checkout", courseId |-> b.courseId, plan |-> PlanOf(b),
     session_id |-> SessionId(t),
     session_url |-> SessionUrl(SessionId(t), b.courseId),
     created_at |-> t]

\* A variant that surfaces a failed write as submit_contact does.
CheckoutSurfaced(rec, o) ==
    IF o.kind = "raise"
    THEN [status |-> 500, body |-> [detail |-> o.err]]
    ELSE [status |-> 200,
          body |-> [ok |-> TRUE, sessionId |-> rec.session_id,
                    url |-> rec.session_url]]

\* Line 131: the answer, whatever outcome o the write had.
CheckoutResponse(rec, o) ==
    [status |-> 200,
     body |-> [ok |-> TRUE, sessionId |-> rec.session_id,
               url |-> rec.session_url]]

\* Validation and lines 116-125.
CreateCheckout(b) ==
    /\ Len(requests) < MaxReq
    /\ requests' = Append(requests,
          IF CheckoutErrors(b) # {}
          THEN Answered("checkout", b, Unprocessable(CheckoutErrors(b)))
          ELSE Built("checkout", b, CheckoutRecord(b, clock)))
    /\ UNCHANGED <<adapter, clock, calls, store, nextId>>

\* Lines 126-131.
CreateCheckoutPersist(i) ==
    /\ i \in Pending("checkout")
    /\ IF ShouldPersist
       THEN \E o \in CreateDocumentOutcomes :
               /\ CreateDocument(i, "checkout", o)
               /\ Respond(i, CheckoutResponse(requests[i].rec, o))
       ELSE /\ Respond(i, CheckoutResponse(requests[i].rec, OkOutcome(0)))
            /\ UNCHANGED <<calls, store, nextId>>
    /\ UNCHANGED <<adapter, clock>>

----------------------------------------------------------------------------
(* POST /api/analytics *)

\* A variant tagged as the contact handler tags.
AnalyticsMistagged(b, t) ==
    [event |-> b.event, properties |-> b.properties, user |-> b.user,
     _type |-> "contact", received_at |-> t]

\* Lines 137-141.
AnalyticsRecord(b, t) ==
    [event |-> b.event, properties |-> b.properties, user |-> b.user,
     _type |-> "analytics", received_at |-> t]

\* Line 147: the answer, whatever outcome o the write had.
AnalyticsResponse(o) == [status |-> 200, body |-> [ok |-> TRUE]]

\* Validation and lines 137-141.
TrackEvent(b) ==
    /\ Len(requests) < MaxReq
    /\ requests' = Append(requests,
          IF AnalyticsErrors(b) # {}
          THEN Answered("analytics", b, Unprocessable(AnalyticsErrors(b)))
          ELSE Built("analytics", b, AnalyticsRecord(b, clock)))
    /\ UNCHANGED <<adapter, clock, calls, store, nextId>>

\* Lines 142-147.
TrackEventPersist(i) ==
    /\ i \in Pending("analytics")
    /\ IF ShouldPersist
       THEN \E o \in CreateDocumentOutcomes :
               /\ CreateDocument(i, "analytics", o)
               /\ Respond(i, AnalyticsResponse(o))
       ELSE /\ Respond(i, AnalyticsResponse(OkOutcome(0)))
            /\ UNCHANGED <<calls, store, nextId>>
    /\ UNCHANGED <<adapter, clock>>

----------------------------------------------------------------------------
(* GET /test *)

\* `db is not None` (line 69)
DbPresent == adapter = "ready"

\* Lines 59-66.
DefaultDiagnostics ==
    [backend |-> <<"Running">>,
     database |-> <<"Not Available">>,
     database_url |-> <<"None">>,
     database_name |-> <<"None">>,
     connection_status |-> <<"Not Connected">>,
     collections |-> <<>>]

\* Lines 74-79: the inner try.
ListCollections(r, lp) ==
    IF lp.kind = "raise"
    THEN [r EXCEPT !.database =
              <<"Connected but Error: ">> \o Truncate(lp.err, ErrorChars)]
    ELSE [r EXCEPT !.collections =
              SubSeq(lp.names, 1, Min(Len(lp.names), CollectionsShown)),
                   !.database = <<"Connected & Working">>]

\* Lines 69-81: the body of the outer try.  raised tells whether an
\* exception left it, err is that exception's text, r the response so far.
ProbeStore(r, np, lp) ==
    IF DbPresent
    THEN LET r1 == [r EXCEPT !.database = <<"Available">>,
                             !.database_url = <<"Configured">>]
         IN  IF np.kind = "raise"
             THEN [raised |-> TRUE, err |-> np.err, r |-> r1]
             ELSE [raised |-> FALSE, err |-> <<>>,
                   r |-> ListCollections(
                            [r1 EXCEPT !.database_name =
                                          IF np.kind = "value" THEN np.name
                                          ELSE <<"Connected">>,
                                       !.connection_status = <<"Connected">>],
                            lp)]
    ELSE [raised |-> FALSE, err |-> <<>>,
          r |-> [r EXCEPT !.database = <<"Available but not initialized">>]]

\* Lines 82-83: the outer except.
OuterExcept(p) ==
    IF p.raised
    THEN [raised |-> FALSE, err |-> <<>>,
          r |-> [p.r EXCEPT !.database =
                    <<"Error: ">> \o Truncate(p.err, ErrorChars)]]
    ELSE p

\* Lines 85-86.
EnvFlags(p, env) ==
    IF p.raised THEN p
    ELSE [p EXCEPT
            !.r.database_url = IF env.url THEN <<"Set">> ELSE <<"Not Set">>,
            !.r.database_name = IF env.name THEN <<"Set">> ELSE <<"Not Set">>]

\* Line 88, and what the framework answers when an exception leaves the
\* handler.
Serve(p) ==
    IF p.raised
    THEN [status |-> 500, body |-> [detail |-> <<"Internal Server Error">>]]
    ELSE [status |-> 200, body |-> p.r]

\* Lines 57-88.
TestDatabaseResponse(np, lp, env) ==
    Serve(EnvFlags(OuterExcept(ProbeStore(DefaultDiagnostics, np, lp)), env))

\* The probes a request meets: none without a handle, and no listing once
\* getting the name has raised.
ProbePairs ==
    IF DbPresent
    THEN { <<np, lp>> \in NameProbes \X (ListProbes \cup {NoList}) :
              (np.kind = "raise") <=> (lp = NoList) }
    ELSE { <<NoProbe, NoList>> }

\* A handle that answers and one whose name cannot be read.
CoreProbePairs ==
    { pp \in ProbePairs :
         \/ ~DbPresent
         \/ pp[1].kind = "value" /\ pp[2].kind = "ok"
                /\ Len(pp[2].names) = ManyCollections
         \/ pp[1].kind = "raise" /\ Len(pp[1].err) = ShortErr }

\* What os.getenv finds at lines 85-86: each variable set to a non-empty
\* value or not.
Environments == [url : BOOLEAN, name : BOOLEAN]
CoreEnvironments == { e \in Environments : e.url = e.name }

TestDatabase(pairs, envs) ==
    /\ Len(requests) < MaxReq
    /\ \E pp \in pairs, env \in envs :
          requests' = Append(requests,
              Answered("test", [name |-> pp[1], list |-> pp[2], env |-> env],
                       TestDatabaseResponse(pp[1], pp[2], env)))
    /\ UNCHANGED <<adapter, clock, calls, store, nextId>>

----------------------------------------------------------------------------
(* The clock *)

\* The first instant of the model: the last tick of second StartSecond.
StartTick == StartSecond * TicksPerSecond + (TicksPerSecond - 1)

Tick ==
    /\ clock < StartTick + MaxTick
    /\ clock' = clock + 1
    /\ UNCHANGED <<adapter, requests, calls, store, nextId>>

----------------------------------------------------------------------------
(* The system *)

\* Lines 39-42 leave the adapter absent (the import failed: both names are
\* None), uninitialized (imported, db is None) or ready.
Init ==
    /\ adapter \in {"absent", "uninitialized", "ready"}
    /\ clock = StartTick
    /\ requests = <<>>
    /\ calls = <<>>
    /\ store = <<>>
    /\ nextId = 1

\* Every endpoint, each with a few representative inputs.
Next ==
    \/ Tick
    \/ ReadRoot
    \/ Hello
    \/ TestDatabase(CoreProbePairs, CoreEnvironments)
    \/ \E b \in CoreContactBodies : SubmitContact(b)
    \/ \E i \in 1..MaxReq : SubmitContactPersist(i)
    \/ \E b \in CoreCheckoutBodies : CreateCheckout(b)
    \/ \E i \in 1..MaxReq : CreateCheckoutPersist(i)
    \/ \E b \in CoreAnalyticsBodies : TrackEvent(b)
    \/ \E i \in 1..MaxReq : TrackEventPersist(i)

Spec == Init /\ [][Next]_vars

\* POST /api/contact alone, with bodies around every limit.
NextContact ==
    \/ Tick
    \/ \E b \in ContactBodies : SubmitContact(b)
    \/ \E i \in 1..MaxReq : SubmitContactPersist(i)

SpecContact == Init /\ [][NextContact]_vars

\* The two best-effort handlers, with every body.
NextBestEffort ==
    \/ Tick
    \/ \E b \in CheckoutBodies : CreateCheckout(b)
    \/ \E i \in 1..MaxReq : CreateCheckoutPersist(i)
    \/ \E b \in AnalyticsBodies : TrackEvent(b)
    \/ \E i \in 1..MaxReq : TrackEventPersist(i)

SpecBestEffort == Init /\ [][NextBestEffort]_vars

\* POST /api/checkout alone, with every body.
NextCheckout ==
    \/ Tick
    \/ \E b \in CheckoutBodies : CreateCheckout(b)
    \/ \E i \in 1..MaxReq : CreateCheckoutPersist(i)

SpecCheckout == Init /\ [][NextCheckout]_vars

\* The GET endpoints, with every behaviour of the store handle.
NextDiagnostics ==
    \/ ReadRoot
    \/ Hello
    \/ TestDatabase(ProbePairs, Environments)

SpecDiagnostics == Init /\ [][NextDiagnostics]_vars

----------------------------------------------------------------------------
(* Reading the state *)

Reqs(ep) == { i \in 1..Len(requests) : requests[i].ep = ep }
Done(i) == requests[i].pc = "done"
CallsOf(i) == { k \in 1..Len(calls) : calls[k].req = i }
StoredFor(i) == { k \in 1..Len(store) :
                    \E c \in CallsOf(i) :
                        calls[c].outcome.kind = "ok"
                        /\ calls[c].outcome.id = store[k].id }
Raised(i) == \E c \in CallsOf(i) : calls[c].outcome.kind = "raise"
Contains(s, t) ==
    \E j \in 1..(Len(s) + 1) :
        j + Len(t) - 1 <= Len(s) /\ SubSeq(s, j, j + Len(t) - 1) = t
BareAck == [status |-> 200, body |-> [ok |-> TRUE]]

----------------------------------------------------------------------------
(* POST /api/contact: claims C1, C2, C5, under SpecContact *)

ContactOutOfContract(b) ==
    \/ b.name < 2 \/ b.name > 120
    \/ ~EmailWellFormed(b.email)
    \/ b.message < 4 \/ b.message > 4000

\* C1: a contact request whose name is shorter than 2 or longer than 120
\* characters, whose email is malformed or whose message is shorter than 4
\* or longer than 4000 characters is answered 422, and create_document is
\* never called for it.
C1_RejectedBeforeStore ==
    \A i \in Reqs("contact") :
        ContactOutOfContract(requests[i].body) =>
            /\ Done(i)
            /\ requests[i].resp.status = 422
            /\ requests[i].resp.body.errors # {}
            /\ CallsOf(i) = {}

\* A rejected contact request beside one that did reach the store.
C1_Witness ==
    /\ \E i \in Reqs("contact") :
          ContactOutOfContract(requests[i].body) /\ Done(i)
    /\ \E j \in Reqs("contact") : CallsOf(j) # {}

C5_NoDeduplication ==
    /\ \A i \in Reqs("contact") :
          (Done(i) /\ adapter = "ready" /\ ~Raised(i)
                   /\ ~ContactOutOfContract(requests[i].body)) =>
              /\ Cardinality(StoredFor(i)) = 1
              /\ \A k \in StoredFor(i) :
                    /\ store[k].coll = "contact"
                    /\ store[k].doc = requests[i].rec
                    /\ requests[i].resp.status = 200
                    /\ requests[i].resp.body.ok
                    /\ requests[i].resp.body.id = store[k].id
    /\ \A i, j \in Reqs("contact") :
          i # j => StoredFor(i) \cap StoredFor(j) = {}
    /\ \A k, l \in 1..Len(store) : k # l => store[k].id # store[l].id

\* The same payload submitted twice within one tick, both stored.
C5_Witness ==
    \E i, j \in Reqs("contact") :
        /\ i # j
        /\ requests[i].body = requests[j].body
        /\ requests[i].rec = requests[j].rec
        /\ Done(i) /\ Done(j)
        /\ StoredFor(i) # {} /\ StoredFor(j) # {}

----------------------------------------------------------------------------
(* The best-effort handlers: claim C4 under SpecBestEffort, claims C8 and  *)
(* C9 under SpecCheckout                                                   *)

ValidCheckouts ==
    { i \in Reqs("checkout") : Len(requests[i].body.courseId) >= 1 }
ValidAnalytics ==
    { i \in Reqs("analytics") :
          requests[i].body.event >= 2 /\ requests[i].body.event <= 64 }

\* C4: a valid checkout is answered 200 with ok=true and a non-empty
\* sessionId and url, and a valid analytics event exactly {ok: true},
\* whether the write succeeds, raises or is not made for want of an
\* adapter.
C4_BestEffortAlwaysSucceeds ==
    /\ \A i \in ValidCheckouts :
          Done(i) =>
              /\ requests[i].resp.status = 200
              /\ DOMAIN requests[i].resp.body = {"ok", "sessionId", "url"}
              /\ requests[i].resp.body.ok
              /\ requests[i].resp.body.sessionId # <<>>
              /\ requests[i].resp.body.url # <<>>
    /\ \A i \in ValidAnalytics : Done(i) => requests[i].resp = BareAck

\* A checkout and an analytics event answered after their writes raised.
C4_Witness ==
    /\ \E i \in ValidCheckouts : Done(i) /\ Raised(i)
    /\ \E i \in ValidAnalytics : Done(i) /\ Raised(i)

IsDigit(c) == \E d \in 0..9 : DigitChar(d) = c
DigitValue(c) == CHOOSE d \in 0..9 : DigitChar(d) = c
RECURSIVE DecimalValue(_)
DecimalValue(ds) ==
    IF ds = <<>> THEN 0
    ELSE 10 * DecimalValue(SubSeq(ds, 1, Len(ds) - 1))
            + DigitValue(ds[Len(ds)])

\* The whole second that holds the instant of tick t.
WholeSecond(t) ==
    CHOOSE sec \in StartSecond..(StartSecond + MaxTick + 1) :
        sec * TicksPerSecond <= t /\ t < (sec + 1) * TicksPerSecond

\* C8: the session id of a valid checkout is "sess_" followed by the
\* decimal digits of the Unix time in whole seconds, its url is
\* "/checkout/success?sid=<sessionId>&course=<courseId>", the response
\* carries both, and the record handed to the store has the same session id
\* and url, the tag "checkout" and, when the request gave no plan, the plan
\* "standard".
C8_SessionIdAndUrl ==
    \A i \in ValidCheckouts :
        LET rec == requests[i].rec
            digits == Tail(rec.session_id)
        IN  /\ Head(rec.session_id) = "sess_"
            /\ digits # <<>>
            /\ \A n \in 1..Len(digits) : IsDigit(digits[n])
            /\ Len(digits) > 1 => digits[1] # "0"
            /\ DecimalValue(digits) = WholeSecond(requests[i].ts)
            /\ rec.session_url =
                  <<"/checkout/success?sid=">> \o rec.session_id
                      \o <<"&course=">> \o requests[i].body.courseId
            /\ Done(i) =>
                  /\ requests[i].resp.body.sessionId = rec.session_id
                  /\ requests[i].resp.body.url = rec.session_url
            /\ \A c \in CallsOf(i) :
                  /\ calls[c].doc.session_id = requests[i].resp.body.sessionId
                  /\ calls[c].doc.session_url = requests[i].resp.body.url
                  /\ calls[c].doc._type = "checkout"
                  /\ calls[c].doc.courseId = requests[i].body.courseId
                  /\ requests[i].body.plan = <<>> =>
                        calls[c].doc.plan = "standard"

\* A checkout without a plan, begun inside a second whose number has one
\* digit more than the starting second's, and handed to the store.
C8_Witness ==
    \E i \in ValidCheckouts :
        /\ Done(i)
        /\ CallsOf(i) # {}
        /\ requests[i].body.plan = <<>>
        /\ requests[i].ts % TicksPerSecond # 0
        /\ Len(requests[i].rec.session_id) > Len(SessionId(StartTick))

\* C9: two checkouts whose handlers read the clock within the same whole
\* second get the identical session id, whatever their course and plan
\* and however their steps interleave, and two that read it in different
\* seconds get different session ids.
C9_SessionIdPerSecond ==
    \A i, j \in ValidCheckouts :
        i # j =>
            (WholeSecond(requests[i].ts) = WholeSecond(requests[j].ts))
            <=> (requests[i].rec.session_id = requests[j].rec.session_id)

\* Two records stored under one session id, for different courses, from
\* handlers that read the clock at different instants of one second and
\* persisted in the opposite order.
C9_Witness ==
    \E k, l \in 1..Len(store) :
        /\ k < l
        /\ store[k].coll = "checkout" /\ store[l].coll = "checkout"
        /\ store[k].doc.session_id = store[l].doc.session_id
        /\ store[k].doc.courseId # store[l].doc.courseId
        /\ store[k].doc.created_at > store[l].doc.created_at

----------------------------------------------------------------------------
(* GET /test: claims C6, C7, under SpecDiagnostics *)

DiagnosticsFields ==
    {"backend", "database", "database_url", "database_name",
     "connection_status", "collections"}

\* The text of the error a probe of the store raised, <<>> if none did.
ProbeError(b) ==
    IF b.name.kind = "raise" THEN b.name.err
    ELSE IF b.list.kind = "raise" THEN b.list.err
    ELSE <<>>

ProbeRaised(b) == b.name.kind = "raise" \/ b.list.kind = "raise"

IsPrefix(s, t) == Len(s) <= Len(t) /\ s = SubSeq(t, 1, Len(s))

\* C6: GET /test always answers 200 with the diagnostics object, whatever
\* the store handle does, and an error raised while probing the store
\* shows only in the database field, as a label followed by at most the
\* first 50 characters of the error's text.
C6_DiagnosticsNeverRaises ==
    \A i \in Reqs("test") :
        LET b == requests[i].body
            r == requests[i].resp.body
        IN  /\ Done(i)
            /\ requests[i].resp.status = 200
            /\ DOMAIN r = DiagnosticsFields
            /\ \A f \in DiagnosticsFields \ {"database", "collections"} :
                  Len(r[f]) = 1
            /\ ProbeRaised(b) =>
                  /\ r.collections = <<>>
                  /\ Head(r.database) \in
                        {"Error: ", "Connected but Error: "}
                  /\ Len(Tail(r.database)) <= 50
                  /\ IsPrefix(Tail(r.database), ProbeError(b))
                  /\ Len(ProbeError(b)) <= 50 =>
                        Tail(r.database) = ProbeError(b)
            /\ ~ProbeRaised(b) => Len(r.database) = 1

\* Both probes met raising an error longer than 50 characters: the name in
\* one request, the listing in another.
C6_Witness ==
    /\ \E i \in Reqs("test") :
          requests[i].body.name.kind = "raise"
          /\ Len(requests[i].body.name.err) > 50
    /\ \E i \in Reqs("test") :
          requests[i].body.list.kind = "raise"
          /\ Len(requests[i].body.list.err) > 50

\* C7: the database_name field carries the store's name when the handle
\* is present and exposes one, and the database field reads "Not
\* Available" when there is no store.
C7_NameAndUnavailable ==
    \A i \in Reqs("test") :
        LET b == requests[i].body
            r == requests[i].resp.body
        IN  /\ (DbPresent /\ b.name.kind = "value") =>
                  r.database_name = b.name.name
            /\ adapter = "absent" => r.database = <<"Not Available">>

----------------------------------------------------------------------------
(* The whole service: claims C3, C10, under Spec *)

ValidContacts ==
    { i \in Reqs("contact") : ~ContactOutOfContract(requests[i].body) }

\* The success acknowledgement of a valid POST request.
Acknowledged(i) ==
    /\ requests[i].resp.status = 200
    /\ requests[i].resp.body.ok
    /\ requests[i].ep \in {"contact", "analytics"} =>
          requests[i].resp = BareAck

\* Every valid POST answered so far was accepted and nothing is stored.
AcceptedNotPersisted(S) ==
    /\ \A i \in S : Done(i) => Acknowledged(i)
    /\ store = <<>>

PostEndpoints == {"contact", "checkout", "analytics"}
GetEndpoints == {"root", "hello", "test"}

\* What every call of create_document made so far looks like.
CallsWellFormed ==
    /\ \A i \in 1..Len(requests) : Cardinality(CallsOf(i)) <= 1
    /\ \A c \in 1..Len(calls) :
          LET i == calls[c].req
          IN  /\ i \in ValidContacts \cup ValidCheckouts \cup ValidAnalytics
              /\ calls[c].coll = requests[i].ep
              /\ calls[c].coll \in PostEndpoints
              /\ calls[c].doc._type = calls[c].coll
    /\ \A k \in 1..Len(store) :
          \E c \in 1..Len(calls) :
              /\ calls[c].outcome.kind = "ok"
              /\ store[k] = [coll |-> calls[c].coll, doc |-> calls[c].doc,
                             id |-> calls[c].outcome.id]

\* What a step may do to the store.
AppendOnlyStep ==
    /\ Len(store') >= Len(store)
    /\ SubSeq(store', 1, Len(store)) = store
    /\ Len(store') <= Len(store) + 1
    /\ Len(calls') <= Len(calls) + 1
    /\ SubSeq(calls', 1, Len(calls)) = calls
    /\ (Len(requests') > Len(requests)
            /\ requests'[Len(requests')].ep \in GetEndpoints) =>
          (store' = store /\ calls' = calls)

\* C10: no step modifies or removes a stored record; a request makes at
\* most one create_document call, only a valid POST makes one, into the
\* collection named for its endpoint with a record tagged with that name;
\* the GET endpoints leave the store unchanged.
C10_AppendOnly == [][AppendOnlyStep]_vars /\ []CallsWellFormed

\* A GET /test answered after a record was stored.
C10_Witness ==
    /\ Len(store) = 1
    /\ Len(requests) = 2
    /\ requests[2].ep = "test"
    /\ requests[2].body.list.kind = "ok"

=============================================================================
